---- MODULE Spec2Model ----
(***************************************************************************)
(* Model of the batch classification scheduler of AI-Email-Classify:       *)
(* backend/src/services/classificationService.ts (classifyEmails and the   *)
(* two per-message classifiers) with the error table of                    *)
(* backend/src/utils/error.ts.                                             *)
(*                                                                         *)
(* One classifyEmails invocation is a state machine.  Its suspension       *)
(* points are the await on Promise.all of a batch and the await on the     *)
(* inter-batch timer; everything the code runs between two suspension      *)
(* points is one action (JavaScript runs it to completion).                *)
(***************************************************************************)
EXTENDS Integers, Sequences, FiniteSets, TLC

(***************************************************************************)
(* Bounds of the model.                                                    *)
(***************************************************************************)
\* Input counts 0..MaxSingle are explored, and every count up to MaxN that
\* the batch plan splits into more than one batch.
MaxSingle == 3
MaxN == 11
\* At most MaxFaults provider calls of one invocation answer with an error.
MaxFaults == 1
\* The batch plan is tabulated for counts 0..MaxPlanN.
MaxPlanN == 60
\* fetchEmails returns at most MaxFetched messages.
MaxFetched == 3
\* One request leads to at most MaxRefreshes token refresh calls.
MaxRefreshes == 2

(***************************************************************************)
(* Strings.  TLC treats a string as a sequence of characters, so the      *)
(* JavaScript string methods are computed character by character.          *)
(***************************************************************************)
CharAt(s, k) == SubSeq(s, k, k)

\* String.prototype.includes
Includes(s, sub) ==
    \E k \in 1..(Len(s) - Len(sub) + 1) : SubSeq(s, k, k + Len(sub) - 1) = sub

\* String.prototype.startsWith
StartsWith(s, prefix) ==
    Len(s) >= Len(prefix) /\ SubSeq(s, 1, Len(prefix)) = prefix

\* String.prototype.substring(start, end) with 0 <= start <= end, 0-based,
\* end exclusive and clamped to the length.
Substring(s, start, end) ==
    SubSeq(s, start + 1, IF end <= Len(s) THEN end ELSE Len(s))

\* email.body.substring(0, 1500)
BodyLimit == 1500

IsSpace(c) == c \in {" ", "\n", "\t"}

\* The first position of s that holds no white space, Len(s) + 1 if none does.
FirstKept(s) ==
    CHOOSE k \in 1..(Len(s) + 1) :
        /\ k <= Len(s) => ~IsSpace(CharAt(s, k))
        /\ \A j \in 1..(k - 1) : IsSpace(CharAt(s, j))

\* The last position of s that holds no white space, 0 if none does.
LastKept(s) ==
    CHOOSE k \in 0..Len(s) :
        /\ k >= 1 => ~IsSpace(CharAt(s, k))
        /\ \A j \in (k + 1)..Len(s) : IsSpace(CharAt(s, j))

\* String.prototype.trim
Trim(s) ==
    CHOOSE trimmed \in {SubSeq(t, FirstKept(t), LastKept(t)) : t \in {s}} : TRUE

\* The upper-case form of each lower-case letter.
UpperOf ==
    [ a |-> "A", b |-> "B", c |-> "C", d |-> "D", e |-> "E", f |-> "F", g |-> "G",
      h |-> "H", i |-> "I", j |-> "J", k |-> "K", l |-> "L", m |-> "M", n |-> "N",
      o |-> "O", p |-> "P", q |-> "Q", r |-> "R", s |-> "S", t |-> "T", u |-> "U",
      v |-> "V", w |-> "W", x |-> "X", y |-> "Y", z |-> "Z" ]

UpperChar(c) == IF c \in DOMAIN UpperOf THEN UpperOf[c] ELSE c

\* The upper-case form of the first k characters of s.
RECURSIVE UpperPrefix(_, _)
UpperPrefix(s, k) ==
    IF k = 0 THEN "" ELSE UpperPrefix(s, k - 1) \o UpperChar(CharAt(s, k))

\* String.prototype.toUpperCase
ToUpperCase(s) ==
    CHOOSE upper \in {UpperPrefix(t, Len(t)) : t \in {s}} : TRUE

(***************************************************************************)
(* utils/error.ts: the entries of the ERRORS table the modelled code raises.*)
(***************************************************************************)
RequestError(message, code, statusCode) ==
    [message |-> message, code |-> code, statusCode |-> statusCode]

ERRORS ==
    [ INVALID_PARAMS |->
        RequestError("Invalid parameters", 10007, 400),
      INVALID_AUTH_TOKEN |->
        RequestError("Invalid authentication token", 20002, 401),
      EMAIL_FETCH_FAILED |->
        RequestError("Failed to fetch emails from Gmail", 30001, 500),
      INVALID_EMAIL_LIMIT |->
        RequestError("Invalid email limit. Must be between 1 and 50", 30003, 400),
      CLASSIFICATION_FAILED |->
        RequestError("Email classification failed", 50001, 500),
      OPENAI_API_ERROR |->
        RequestError("OpenAI API error occurred", 50002, 500),
      INVALID_OPENAI_KEY |->
        RequestError("Invalid or missing OpenAI API key", 50003, 400),
      INVALID_GEMINI_KEY |->
        RequestError("Invalid or missing Gemini API key", 50006, 400),
      GEMINI_API_ERROR |->
        RequestError("Gemini API error occurred", 50007, 500),
      OPENAI_RATE_LIMIT |->
        RequestError("OpenAI rate limit exceeded. Please try again later.", 50008, 429),
      GEMINI_RATE_LIMIT |->
        RequestError("Gemini rate limit exceeded. Please try again later.", 50009, 429),
      OPENAI_KEY_TYPE_MISMATCH |->
        RequestError("You're using a Gemini API key with OpenAI. Please use a valid OpenAI API key.", 50010, 400),
      GEMINI_KEY_TYPE_MISMATCH |->
        RequestError("You're using an OpenAI API key with Gemini. Please use a valid Gemini API key (starts with 'AIzaSy').", 50011, 400) ]

ErrorNames == DOMAIN ERRORS

\* "No error": the value of an error slot that holds nothing.
NoError == "none"

(***************************************************************************)
(* Categories and the category map of the per-message classifiers.         *)
(***************************************************************************)
EmailCategory == {"Important", "Promotional", "Social", "Marketing", "Spam", "General"}

categoryMap ==
    [ IMPORTANT |-> "Important", PROMOTIONAL |-> "Promotional", SOCIAL |-> "Social",
      MARKETING |-> "Marketing", SPAM |-> "Spam", GENERAL |-> "General" ]

\* A normalisation that forgets to trim the response.
CategoryOfUntrimmed(text) ==
    LET rawCategory == ToUpperCase(text)
    IN  IF rawCategory \in DOMAIN categoryMap THEN categoryMap[rawCategory] ELSE "General"

\* rawCategory = result.trim().toUpperCase(); categoryMap[rawCategory] || 'General'
CategoryOfText(text) ==
    LET rawCategory == ToUpperCase(Trim(text))
    IN  IF rawCategory \in DOMAIN categoryMap THEN categoryMap[rawCategory] ELSE "General"

\* The texts the model answers with; message k is answered with the
\* (k mod Len)-th of them when its call succeeds.
ReplyTexts ==
    << "IMPORTANT", "Promotional", " social\n", "SPAM", "Newsletter", "MARKETING", "GENERAL" >>

\* The category of each of these texts, computed once.
CategoryOfReplyText ==
    [text \in {ReplyTexts[k] : k \in 1..Len(ReplyTexts)} |-> CategoryOfText(text)]

\* The category of a provider's response text.
CategoryOf(text) ==
    IF text \in DOMAIN CategoryOfReplyText THEN CategoryOfReplyText[text]
    ELSE CategoryOfText(text)

\* { ...email, category }
WithCategoryOfInput(email, category) ==
    [f \in DOMAIN email \cup {"category"} |->
        IF f = "category" THEN category
        ELSE IF f = "body" THEN Substring(email.body, 0, BodyLimit)
        ELSE email[f]]

\* { ...email, category }
WithCategory(email, category) ==
    [f \in DOMAIN email \cup {"category"} |->
        IF f = "category" THEN category ELSE email[f]]

(***************************************************************************)
(* The provider's answer to one call: a text, or an error carrying the    *)
(* fields the classifiers inspect (status, code, message).  NoStatus is    *)
(* an error without a status field (error?.status is undefined, so every   *)
(* comparison of it with a number is false).                               *)
(***************************************************************************)
NoStatus == 0

TextReply(text) ==
    [kind |-> "text", text |-> text, status |-> NoStatus, code |-> "", message |-> ""]

ErrorReply(status, code, message) ==
    [kind |-> "error", text |-> "", status |-> status, code |-> code, message |-> message]

NoReply ==
    [kind |-> "none", text |-> "", status |-> NoStatus, code |-> "", message |-> ""]

ReplyTextFor(email) == ReplyTexts[((email.id - 1) % Len(ReplyTexts)) + 1]

Unauthorized == ErrorReply(401, "invalid_api_key", "Incorrect API key provided")
TooManyRequests == ErrorReply(429, "rate_limit_exceeded", "Rate limit reached for requests")
ServerError == ErrorReply(503, "server_error", "The server is overloaded")
TimedOut == ErrorReply(NoStatus, "ETIMEDOUT", "Request timed out")

ErrorReplies == {Unauthorized, TooManyRequests, ServerError, TimedOut}

\* error?.status, error?.code and error?.message of the errors a provider
\* call can fail with.
FailureStatuses == {NoStatus, 400, 401, 403, 404, 429, 500, 503}
FailureCodes == {"invalid_api_key", "invalid_request_error"}
FailureMessages == {"API key not valid. Please pass a valid API key.", "Bad request"}

ProviderFailures ==
    {ErrorReply(status, code, message) :
        status \in FailureStatuses, code \in FailureCodes, message \in FailureMessages}

(***************************************************************************)
(* Outcome of an async call: a returned value or a thrown ERRORS entry.    *)
(***************************************************************************)
NoValue == [id |-> 0, category |-> ""]

Return(value) == [tag |-> "return", value |-> value, error |-> NoError]
Throw(error) == [tag |-> "throw", value |-> NoValue, error |-> error]

\* A classifier whose catch takes every provider error for a key error.
classifySingleEmailKeyErrorOnly(email, openaiApiKey, reply) ==
    IF reply.kind = "text" THEN Return(WithCategory(email, CategoryOf(reply.text)))
    ELSE IF StartsWith(openaiApiKey, "AIzaSy")
         THEN Throw("OPENAI_KEY_TYPE_MISMATCH")
         ELSE Throw("INVALID_OPENAI_KEY")

\* A classifier that tests for the rate limit before it tests for a key error.
classifySingleEmailRateLimitFirst(email, openaiApiKey, reply) ==
    IF reply.kind = "text" THEN Return(WithCategory(email, CategoryOf(reply.text)))
    ELSE IF reply.status = 429 THEN Throw("OPENAI_RATE_LIMIT")
    ELSE IF reply.status = 401 \/ reply.code = "invalid_api_key"
         THEN IF StartsWith(openaiApiKey, "AIzaSy")
              THEN Throw("OPENAI_KEY_TYPE_MISMATCH")
              ELSE Throw("INVALID_OPENAI_KEY")
    ELSE IF reply.status >= 500 THEN Throw("OPENAI_API_ERROR")
    ELSE Return(WithCategory(email, "General"))

\* A classifier that takes every 4xx status for a key error.
classifySingleEmailGeminiAnyClientError(email, geminiApiKey, reply) ==
    IF reply.kind = "text" THEN Return(WithCategory(email, CategoryOf(reply.text)))
    ELSE IF (reply.status >= 400 /\ reply.status < 500) \/ reply.code = "invalid_api_key"
            \/ Includes(reply.message, "API key")
         THEN IF ~StartsWith(geminiApiKey, "AIzaSy")
              THEN Throw("GEMINI_KEY_TYPE_MISMATCH")
              ELSE Throw("INVALID_GEMINI_KEY")
    ELSE IF reply.status >= 500 THEN Throw("GEMINI_API_ERROR")
    ELSE Return(WithCategory(email, "General"))

\* classifySingleEmail (OpenAI backend)
classifySingleEmail(email, openaiApiKey, reply) ==
    IF reply.kind = "text" THEN Return(WithCategory(email, CategoryOf(reply.text)))
    ELSE IF reply.status = 401 \/ reply.code = "invalid_api_key"
         THEN IF StartsWith(openaiApiKey, "AIzaSy")
              THEN Throw("OPENAI_KEY_TYPE_MISMATCH")
              ELSE Throw("INVALID_OPENAI_KEY")
    ELSE IF reply.status = 429 THEN Throw("OPENAI_RATE_LIMIT")
    ELSE IF reply.status >= 500 THEN Throw("OPENAI_API_ERROR")
    ELSE Return(WithCategory(email, "General"))

\* classifySingleEmailGemini (Gemini backend)
classifySingleEmailGemini(email, geminiApiKey, reply) ==
    IF reply.kind = "text" THEN Return(WithCategory(email, CategoryOf(reply.text)))
    ELSE IF reply.status = 401 \/ reply.code = "invalid_api_key"
            \/ Includes(reply.message, "API key")
         THEN IF ~StartsWith(geminiApiKey, "AIzaSy")
              THEN Throw("GEMINI_KEY_TYPE_MISMATCH")
              ELSE Throw("INVALID_GEMINI_KEY")
    ELSE IF reply.status = 429 THEN Throw("GEMINI_RATE_LIMIT")
    ELSE IF reply.status >= 500 THEN Throw("GEMINI_API_ERROR")
    ELSE Return(WithCategory(email, "General"))

\* classifyFn = provider === 'openai' ? classifySingleEmail : classifySingleEmailGemini
classifyFn(prov, email, key, reply) ==
    IF prov = "openai" THEN classifySingleEmail(email, key, reply)
    ELSE classifySingleEmailGemini(email, key, reply)


(***************************************************************************)
(* classifyEmails: the batch plan.                                         *)
(***************************************************************************)
Plan(size, delay) == [batchSize |-> size, delayBetweenBatches |-> delay]

\* Math.ceil(a / b) for a >= 0, b > 0
Ceil(a, b) == (a + b - 1) \div b

\* A ladder whose first test is strict: 5 messages fall into the second row.
BatchPlanStrictFirst(n) ==
    IF n < 5 THEN Plan(n, 0)
    ELSE IF n <= 10 THEN Plan(n, 500)
    ELSE IF n <= 15 THEN Plan(Ceil(n, 2), 800)
    ELSE IF n <= 25 THEN Plan(10, 1000)
    ELSE IF n <= 40 THEN Plan(10, 1200)
    ELSE Plan(8, 1500)

\* A ladder whose last row repeats the batch size of the row above it.
BatchPlanLastRowTen(n) ==
    IF n <= 5 THEN Plan(n, 0)
    ELSE IF n <= 10 THEN Plan(n, 500)
    ELSE IF n <= 15 THEN Plan(Ceil(n, 2), 800)
    ELSE IF n <= 25 THEN Plan(10, 1000)
    ELSE IF n <= 40 THEN Plan(10, 1200)
    ELSE Plan(10, 1500)

\* The if / else-if ladder on emails.length
BatchPlanAllAtOnce(n) == Plan(n, 0)

BatchPlan(n) ==
    IF n <= 5 THEN Plan(n, 0)
    ELSE IF n <= 10 THEN Plan(n, 500)
    ELSE IF n <= 15 THEN Plan(Ceil(n, 2), 800)
    ELSE IF n <= 25 THEN Plan(10, 1000)
    ELSE IF n <= 40 THEN Plan(10, 1200)
    ELSE Plan(8, 1500)

\* Math.ceil(emails.length / batchSize)
TotalBatches(n) == Ceil(n, BatchPlan(n).batchSize)

(***************************************************************************)
(* classifyEmails: the pieces of the batch loop.                           *)
(***************************************************************************)
Min(a, b) == IF a <= b THEN a ELSE b

SliceInclusive(arr, start, end) == SubSeq(arr, start + 1, Min(end + 1, Len(arr)))

\* Array.prototype.slice(start, end) with 0 <= start <= end, 0-based, end
\* exclusive and clamped to the length.
Slice(arr, start, end) == SubSeq(arr, start + 1, Min(end, Len(arr)))

\* The test of the inner catch: is the caught error re-thrown?
IsApiKeyError(message) ==
    \/ Includes(message, "INVALID_")
    \/ Includes(message, "API key with")
    \/ Includes(message, "API key provided")

\* The ERRORS entries the inner catch re-throws.
RethrownErrors == {e \in ErrorNames : IsApiKeyError(ERRORS[e].message)}

\* The slot of an unresolved promise in the array Promise.all fills.
Unresolved == NoValue

\* A results array filled in order of arrival: the value goes to the first
\* free position instead of the position of its promise.
PlaceResultOnArrival(results, pos, value) ==
    LET free == CHOOSE q \in DOMAIN results :
                    /\ results[q] = Unresolved
                    /\ \A q2 \in DOMAIN results : results[q2] = Unresolved => q <= q2
    IN  [results EXCEPT ![free] = value]

\* Promise.all stores the value of the promise at position pos at position pos.
PlaceResult(results, pos, value) == [results EXCEPT ![pos] = value]

\* A join that resolves as soon as one promise has resolved.
AnySettled(pend, p) == TRUE

\* Promise.all resolves when the last pending promise (p) resolves.
AllSettled(pend, p) == pend = {p}

\* A delay condition without the test for a further batch: it also holds
\* after the final batch.
DelayAfterEveryBatch(idx, size, n, delay) == delay > 0

\* if (i + batchSize < emails.length && delayBetweenBatches > 0)
DelayNeeded(idx, size, n, delay) == idx + size < n /\ delay > 0

\* The outer catch of classifyEmails: what the caller receives.
OuterCatchRethrows(error) == error

OuterCatch(error) == "CLASSIFICATION_FAILED"

NextIndexOverlapping(idx, size) == idx + size - 1

NextIndexByOne(idx, size) == idx + 1

\* i += batchSize
NextIndex(idx, size) == idx + size

(***************************************************************************)
(* Inputs.                                                                 *)
(***************************************************************************)
MakeEmails(n) == [k \in 1..n |-> [id |-> k]]

InputCounts ==
    (0..MaxSingle) \cup {n \in 1..MaxN : BatchPlan(n).batchSize < n}

ApiKeys == {"", "sk-proj-4f2a", "AIzaSyD-9tSr"}

Providers == {"openai", "gemini"}

NoPlan == Plan(0, 0)

\* Every answer a call for the given message can get.
RepliesFor(email) == {TextReply(ReplyTextFor(email))} \cup ErrorReplies

(***************************************************************************)
(* State.                                                                  *)
(***************************************************************************)
VARIABLES
    emails,               \* argument: the messages
    apiKey,               \* argument: the credential
    provider,             \* argument: the backend
    pc,                   \* "idle", "await" (Promise.all), "delay" (timer), "returned", "raised"
    i,                    \* loop variable of the batch loop
    batchSize,
    delayBetweenBatches,
    pending,              \* positions of the current batch whose call is in flight
    batchResults,         \* the array Promise.all fills for the current batch
    classifiedEmails,     \* accumulator
    errors,               \* the subjects pushed by the inner catch (by message id)
    result,               \* the array returned to the caller
    thrown,               \* the error raised to the caller
    reply,                \* history: the provider's answer to each message's call
    calls,                \* history: number of calls dispatched per message
    delays,               \* history: number of inter-batch timers started
    batches,              \* history: number of batches dispatched
    abortedBy,            \* history: index of the message whose rejection aborted (0: none)
    reordered,            \* history: some call settled while an earlier one of its batch was pending
    planN,                \* input of the batch plan tabulation
    planOut,              \* output of the batch plan tabulation
    planBatches           \* the batches the loop cuts planN messages into

\* Normalisation of one model response (the tail of a per-message classifier).
VARIABLES
    response,             \* the response: leading white space, word, trailing white space
    category              \* the category assigned to it ("none": not yet)

categoryVars == << response, category >>

\* One request to the email controller (getEmails or fetchAndClassify).
VARIABLES
    req,                  \* the request: handler, query.limit, body.apiKey, body.provider
    hpc,                  \* "idle", "received", "fetching", "classifying", "sent"
    fetchCalls,           \* history: the maxResults of every fetchEmails call
    fetched,              \* the messages fetchEmails returned
    res                   \* the response sent

handlerVars == << req, hpc, fetchCalls, fetched, res >>

\* The dashboard page in one browser.
VARIABLES
    state,                \* the component state of the last render: mounted, provider, apiKey
    queued,               \* the component state with the updates requested since
    committed,            \* the page has rendered
    localStorage,         \* aiProvider, openaiApiKey, geminiApiKey
    loaded,               \* history: localStorage when the page was loaded
    touched,              \* history: the user has acted since the page was loaded
    entered,              \* history: the keys entered, each with the provider then selected
    dialog,               \* the dialog shown
    isPending,            \* fetchAndClassify.isPending
    failure               \* history: the backend error of the failed request the dialog reports

dashboardVars == << state, queued, committed, localStorage, loaded, touched, entered,
                    dialog, isPending, failure >>

\* One message on its way through a per-message classifier.
VARIABLES
    msg,                  \* the message
    via,                  \* the backend and the credential
    mpc,                  \* "idle", "ready", "asked", "labeled", "rethrown"
    prompt,               \* the classifier input
    labeled,              \* the labeled message
    answer,               \* history: the provider's answer
    outcome               \* history: what the per-message classifier returned or threw

messageVars == << msg, via, mpc, prompt, labeled, answer, outcome >>

\* One request through the axios instance of the frontend.
VARIABLES
    storage,              \* the browser's localStorage
    config,               \* the request config: Authorization header and _retry
    ipc,                  \* "idle", "ready", "pending", "refreshing", "resolved", "rejected"
    sends,                \* history: how often the request went to the server
    refreshes,            \* history: the refresh calls made
    issued,               \* history: the access token the refresh call returned
    settlement,           \* what the caller's promise settled with
    href                  \* window.location.href

interceptorVars == << storage, config, ipc, sends, refreshes, issued, settlement, href >>

\* The variables of the other specifications, which classifyEmails and the
\* plan tabulation leave alone.
sideVars == << categoryVars, handlerVars, dashboardVars, messageVars, interceptorVars >>

vars == << emails, apiKey, provider, pc, i, batchSize, delayBetweenBatches, pending,
           batchResults, classifiedEmails, errors, result, thrown, reply, calls,
           delays, batches, abortedBy, reordered, planN, planOut, planBatches, sideVars >>

inputVars == << emails, apiKey, provider >>
planVars == << planN, planOut, planBatches >>

NoResponse == [pre |-> "", word |-> "", post |-> ""]

CategoryIdle == response = NoResponse /\ category = "none"

NoRequest ==
    [handler |-> "none", hasLimit |-> FALSE, limit |-> "", apiKey |-> "", provider |-> ""]

NoRes == [success |-> FALSE, message |-> "", statusCode |-> 0]

HandlerIdle ==
    /\ req = NoRequest
    /\ hpc = "idle"
    /\ fetchCalls = << >>
    /\ fetched = << >>
    /\ res = NoRes

NoStorage == [aiProvider |-> "", openaiApiKey |-> "", geminiApiKey |-> ""]

NoState == [mounted |-> FALSE, provider |-> "", apiKey |-> ""]

NoShownDialog == [isOpen |-> FALSE, title |-> "", message |-> "", type |-> ""]

DashboardIdle ==
    /\ state = NoState
    /\ queued = NoState
    /\ committed = FALSE
    /\ localStorage = NoStorage
    /\ loaded = NoStorage
    /\ touched = FALSE
    /\ entered = {}
    /\ dialog = NoShownDialog
    /\ isPending = FALSE
    /\ failure = NoError

NoMessage ==
    [id |-> "", threadId |-> "", from |-> "", to |-> "", subject |-> "", snippet |-> "",
     body |-> "", date |-> "", labels |-> << >>]

NoPrompt == [from |-> "", subject |-> "", snippet |-> "", body |-> ""]

NoLabeled == [f \in DOMAIN NoMessage \cup {"category"} |->
                 IF f = "category" THEN "" ELSE NoMessage[f]]

MessageIdle ==
    /\ msg = NoMessage
    /\ via = [provider |-> "", apiKey |-> ""]
    /\ mpc = "idle"
    /\ prompt = NoPrompt
    /\ labeled = NoLabeled
    /\ answer = NoReply
    /\ outcome = Return(NoValue)

NoConfig == [Authorization |-> "", retry |-> FALSE]

NoSettlement == [kind |-> "none", from |-> "", httpStatus |-> NoStatus]

InterceptorIdle ==
    /\ storage = << >>
    /\ config = NoConfig
    /\ ipc = "idle"
    /\ sends = 0
    /\ refreshes = 0
    /\ issued = ""
    /\ settlement = NoSettlement
    /\ href = ""

SideIdle == CategoryIdle /\ HandlerIdle /\ DashboardIdle /\ MessageIdle /\ InterceptorIdle

N == Len(emails)

\* const batch = emails.slice(i, i + batchSize)
Batch == Slice(emails, i, i + batchSize)

Faults == Cardinality({k \in 1..N : reply[k].kind = "error"})

Init ==
    /\ emails \in {MakeEmails(n) : n \in InputCounts}
    /\ apiKey \in ApiKeys
    /\ provider \in Providers
    /\ pc = "idle"
    /\ i = 0
    /\ batchSize = 0
    /\ delayBetweenBatches = 0
    /\ pending = {}
    /\ batchResults = << >>
    /\ classifiedEmails = << >>
    /\ errors = << >>
    /\ result = << >>
    /\ thrown = NoError
    /\ reply = [k \in 1..N |-> NoReply]
    /\ calls = [k \in 1..N |-> 0]
    /\ delays = 0
    /\ batches = 0
    /\ abortedBy = 0
    /\ reordered = FALSE
    /\ planN = 0
    /\ planOut = NoPlan
    /\ planBatches = << >>
    /\ SideIdle

(***************************************************************************)
(* The batch loop from its test "i < emails.length" on, with loop variable *)
(* idx, accumulator acc and batch size size, up to the next suspension:    *)
(* either the calls of the next batch are dispatched (batch.map runs each  *)
(* async callback up to its first await) and the function awaits           *)
(* Promise.all, or the loop is over and the accumulator is returned.       *)
(***************************************************************************)
LoopFrom(idx, acc, size) ==
    /\ i' = idx
    /\ classifiedEmails' = acc
    /\ IF idx < N
       THEN LET batch == Slice(emails, idx, idx + size)
            IN  /\ pc' = "await"
                /\ pending' = 1..Len(batch)
                /\ batchResults' = [p \in 1..Len(batch) |-> Unresolved]
                /\ calls' = [k \in 1..N |->
                               IF \E p \in 1..Len(batch) : batch[p].id = emails[k].id
                               THEN calls[k] + 1 ELSE calls[k]]
                /\ batches' = batches + 1
                /\ result' = result
       ELSE /\ pc' = "returned"
            /\ result' = acc
            /\ pending' = {}
            /\ batchResults' = << >>
            /\ UNCHANGED << calls, batches >>

EmptyInputRaises == [pc |-> "raised", result |-> << >>]

\* if (!emails || emails.length === 0) return []
EmptyInput == [pc |-> "returned", result |-> << >>]

\* classifyEmails from its entry to its first suspension.
Invoke ==
    /\ pc = "idle"
    /\ IF apiKey = ""
       THEN /\ pc' = "raised"
            /\ thrown' = OuterCatch(IF provider = "openai" THEN "INVALID_OPENAI_KEY"
                                    ELSE "INVALID_GEMINI_KEY")
            /\ UNCHANGED << i, batchSize, delayBetweenBatches, pending, batchResults,
                            classifiedEmails, result, calls, batches >>
       ELSE IF N = 0
       THEN /\ pc' = EmptyInput.pc
            /\ result' = EmptyInput.result
            /\ UNCHANGED << i, batchSize, delayBetweenBatches, pending, batchResults,
                            classifiedEmails, thrown, calls, batches >>
       ELSE /\ batchSize' = BatchPlan(N).batchSize
            /\ delayBetweenBatches' = BatchPlan(N).delayBetweenBatches
            /\ LoopFrom(0, << >>, BatchPlan(N).batchSize)
            /\ UNCHANGED thrown
    /\ UNCHANGED << inputVars, errors, reply, delays, abortedBy, reordered, planVars, sideVars >>

(***************************************************************************)
(* The provider answers the call of the message at position p of the       *)
(* current batch.  The per-message classifier and the inner try/catch of   *)
(* batch.map run; if that rejects while classifyEmails awaits Promise.all, *)
(* Promise.all rejects and the outer catch raises; if it was the last      *)
(* pending call, Promise.all resolves and classifyEmails runs on to its    *)
(* next suspension.                                                        *)
(***************************************************************************)
Settle(p, r) ==
    LET email == Batch[p]
        k == i + p
        out == classifyFn(provider, email, apiKey, r)
        rethrown == out.tag = "throw" /\ out.error \in RethrownErrors
        swallowed == out.tag = "throw" /\ out.error \notin RethrownErrors
        value == IF out.tag = "return" THEN out.value
                 ELSE WithCategory(email, "General")
        filled == PlaceResult(batchResults, p, value)
    IN  /\ pc \in {"await", "raised"}
        /\ p \in pending
        /\ r.kind = "error" => Faults < MaxFaults
        /\ reply' = [reply EXCEPT ![k] = r]
        /\ reordered' = (reordered \/ \E q \in pending : q < p)
        /\ errors' = IF swallowed THEN Append(errors, email.id) ELSE errors
        /\ IF pc = "raised"
           THEN /\ pending' = pending \ {p}
                /\ UNCHANGED << pc, i, batchResults, classifiedEmails, result, thrown,
                                calls, delays, batches, abortedBy >>
           ELSE IF rethrown
           THEN /\ pc' = "raised"
                /\ thrown' = OuterCatch(out.error)
                /\ abortedBy' = k
                /\ pending' = pending \ {p}
                /\ UNCHANGED << i, batchResults, classifiedEmails, result, calls,
                                delays, batches >>
           ELSE IF ~AllSettled(pending, p)
           THEN /\ pending' = pending \ {p}
                /\ batchResults' = filled
                /\ UNCHANGED << pc, i, classifiedEmails, result, thrown, calls, delays,
                                batches, abortedBy >>
           ELSE IF DelayNeeded(i, batchSize, N, delayBetweenBatches)
           THEN /\ pc' = "delay"
                /\ classifiedEmails' = classifiedEmails \o filled
                /\ pending' = pending \ {p}
                /\ batchResults' = << >>
                /\ delays' = delays + 1
                /\ UNCHANGED << i, result, thrown, calls, batches, abortedBy >>
           ELSE /\ LoopFrom(NextIndex(i, batchSize), classifiedEmails \o filled, batchSize)
                /\ UNCHANGED << thrown, delays, abortedBy >>
        /\ UNCHANGED << inputVars, batchSize, delayBetweenBatches, planVars, sideVars >>

Answer ==
    \E p \in pending :
        \E r \in RepliesFor(Batch[p]) : Settle(p, r)

\* The inter-batch timer fires: i += batchSize and the loop goes on.
DelayElapsed ==
    /\ pc = "delay"
    /\ LoopFrom(NextIndex(i, batchSize), classifiedEmails, batchSize)
    /\ UNCHANGED << inputVars, batchSize, delayBetweenBatches, errors, thrown, reply,
                    delays, abortedBy, reordered, planVars, sideVars >>

Next == Invoke \/ Answer \/ DelayElapsed

Spec == Init /\ [][Next]_vars

\* for (let i = 0; i < emails.length; i += batchSize)
\*     batch = emails.slice(i, i + batchSize):
\* the batches the loop cuts from index idx on.
RECURSIVE BatchesOf(_, _, _)
BatchesOf(es, size, idx) ==
    IF idx < Len(es)
    THEN << Slice(es, idx, idx + size) >> \o BatchesOf(es, size, idx + size)
    ELSE << >>

\* classifyEmails when every call is eventually answered and every delay
\* eventually elapses.
Fairness == WF_vars(Invoke) /\ WF_vars(Answer) /\ WF_vars(DelayElapsed)

SpecLive == Spec /\ Fairness

(***************************************************************************)
(* Tabulation of the batch plan: the plan of every count 1..MaxPlanN.      *)
(***************************************************************************)
InitPlan ==
    /\ planN \in 1..MaxPlanN
    /\ planOut = NoPlan
    /\ planBatches = << >>
    /\ emails = << >>
    /\ apiKey = ""
    /\ provider = "openai"
    /\ pc = "idle"
    /\ i = 0
    /\ batchSize = 0
    /\ delayBetweenBatches = 0
    /\ pending = {}
    /\ batchResults = << >>
    /\ classifiedEmails = << >>
    /\ errors = << >>
    /\ result = << >>
    /\ thrown = NoError
    /\ reply = << >>
    /\ calls = << >>
    /\ delays = 0
    /\ batches = 0
    /\ abortedBy = 0
    /\ reordered = FALSE
    /\ SideIdle

ComputePlan ==
    /\ planOut = NoPlan
    /\ planOut' = BatchPlan(planN)
    /\ planBatches' = BatchesOf(MakeEmails(planN), BatchPlan(planN).batchSize, 0)
    /\ UNCHANGED << inputVars, pc, i, batchSize, delayBetweenBatches, pending,
                    batchResults, classifiedEmails, errors, result, thrown, reply,
                    calls, delays, batches, abortedBy, reordered, planN, sideVars >>

NextPlan == ComputePlan

SpecPlan == InitPlan /\ [][NextPlan]_vars

(***************************************************************************)
(* No classifyEmails invocation and no plan tabulation is under way.       *)
(***************************************************************************)
SchedulerIdle ==
    /\ emails = << >>
    /\ apiKey = ""
    /\ provider = "openai"
    /\ pc = "idle"
    /\ i = 0
    /\ batchSize = 0
    /\ delayBetweenBatches = 0
    /\ pending = {}
    /\ batchResults = << >>
    /\ classifiedEmails = << >>
    /\ errors = << >>
    /\ result = << >>
    /\ thrown = NoError
    /\ reply = << >>
    /\ calls = << >>
    /\ delays = 0
    /\ batches = 0
    /\ abortedBy = 0
    /\ reordered = FALSE

PlanIdle == planN = 0 /\ planOut = NoPlan /\ planBatches = << >>

schedVars == << emails, apiKey, provider, pc, i, batchSize, delayBetweenBatches, pending,
                batchResults, classifiedEmails, errors, result, thrown, reply, calls,
                delays, batches, abortedBy, reordered >>

(***************************************************************************)
(* Normalisation of a model response: every response made of a word of     *)
(* ResponseWords between two white-space strings of Pads is normalised.    *)
(***************************************************************************)
ResponseWords ==
    { "IMPORTANT", "Important", "important", "imPortaNt",
      "PROMOTIONAL", "Promotional", "promotional",
      "SOCIAL", "Social", "social", "sOCIAL",
      "MARKETING", "Marketing", "marketing",
      "SPAM", "Spam", "spam", "sPaM",
      "GENERAL", "General", "general",
      "", "Newsletter", "SPAM.", "Spam Important", "Category: Spam", "Spa m",
      "IMPORTANT!", "Generals", "Work", "UNKNOWN" }

Pads == {"", " ", "\n", " \t "}

InitCategory ==
    /\ response \in [pre : Pads, word : ResponseWords, post : Pads]
    /\ category = "none"
    /\ SchedulerIdle
    /\ PlanIdle
    /\ HandlerIdle
    /\ DashboardIdle
    /\ MessageIdle
    /\ InterceptorIdle

\* const rawCategory = result.trim().toUpperCase(); const category = ...
Normalise ==
    /\ category = "none"
    /\ category' = CategoryOf(response.pre \o response.word \o response.post)
    /\ UNCHANGED << schedVars, planVars, handlerVars, dashboardVars, messageVars, interceptorVars, response >>

NextCategory == Normalise

SpecCategory == InitCategory /\ [][NextCategory]_vars

(***************************************************************************)
(* controllers/emailController.ts: getEmails and fetchAndClassify, with    *)
(* utils/response.ts and middleware/errorHandler.ts.                       *)
(***************************************************************************)
\* The limit of the query string defaults to 15 and lies in 1..50.
DefaultLimit == 15
MinLimit == 1
MaxLimit == 50

Digits ==
    [c \in {"0", "1", "2", "3", "4", "5", "6", "7", "8", "9"} |->
        CASE c = "0" -> 0 [] c = "1" -> 1 [] c = "2" -> 2 [] c = "3" -> 3 [] c = "4" -> 4
          [] c = "5" -> 5 [] c = "6" -> 6 [] c = "7" -> 7 [] c = "8" -> 8 [] c = "9" -> 9]

IsDigit(c) == c \in DOMAIN Digits

\* The number a string of decimal digits denotes.
RECURSIVE DecimalValue(_)
DecimalValue(d) ==
    IF Len(d) = 0 THEN 0
    ELSE 10 * DecimalValue(SubSeq(d, 1, Len(d) - 1)) + Digits[CharAt(d, Len(d))]

NaN == [nan |-> TRUE, value |-> 0]

Number(v) == [nan |-> FALSE, value |-> v]

\* parseInt(s) on a decimal string: leading white space is skipped, a sign is
\* read, then the longest run of digits; no digit gives NaN.
ParseInt(s) ==
    LET spaces == CHOOSE k \in 0..Len(s) :
                      /\ \A j \in 1..k : IsSpace(CharAt(s, j))
                      /\ k < Len(s) => ~IsSpace(CharAt(s, k + 1))
        t == SubSeq(s, spaces + 1, Len(s))
        signed == Len(t) > 0 /\ CharAt(t, 1) \in {"+", "-"}
        u == IF signed THEN SubSeq(t, 2, Len(t)) ELSE t
        digits == CHOOSE k \in 0..Len(u) :
                      /\ \A j \in 1..k : IsDigit(CharAt(u, j))
                      /\ k < Len(u) => ~IsDigit(CharAt(u, k + 1))
        magnitude == DecimalValue(SubSeq(u, 1, digits))
    IN  IF digits = 0 THEN NaN
        ELSE Number(IF signed /\ CharAt(t, 1) = "-" THEN 0 - magnitude ELSE magnitude)

\* req.query.limit as the handlers read it: undefined when the query has none
\* (parseInt converts undefined to the string "undefined").
QueryLimit(r) == IF r.hasLimit THEN r.limit ELSE "undefined"

\* const maxResults = parseInt(req.query.limit as string) || 15
\* (NaN and 0 are falsy).
MaxResultsOf(r) ==
    LET parsed == ParseInt(QueryLimit(r))
    IN  IF parsed.nan \/ parsed.value = 0 THEN DefaultLimit ELSE parsed.value

\* if (maxResults < 1 || maxResults > 50) throw ERRORS.INVALID_EMAIL_LIMIT
LimitRejected(maxResults) == maxResults < MinLimit \/ maxResults > MaxLimit

\* sendSuccess(res, data, message)
SendSuccess(data, message) ==
    [success |-> TRUE, message |-> message, statusCode |-> 200, data |-> data]

\* next(error): errorHandler answers a RequestError with sendError(err.message,
\* err.statusCode, `ERROR_${err.code}`).
SendError(e) ==
    [success |-> FALSE, message |-> ERRORS[e].message, statusCode |-> ERRORS[e].statusCode,
     error |-> [code |-> << "ERROR_", ERRORS[e].code >>]]

\* getClassificationStats: every category starts at 0, every message adds
\* one to the count of its category.
ZeroStats == [c \in EmailCategory |-> 0]

RECURSIVE CountFrom(_, _, _)
CountFrom(stats, es, k) ==
    IF k > Len(es) THEN stats
    ELSE CountFrom([stats EXCEPT ![es[k].category] = @ + 1], es, k + 1)

getClassificationStatsFromSecond(es) == CountFrom(ZeroStats, es, 2)

getClassificationStats(es) == CountFrom(ZeroStats, es, 1)

\* The empty object literal {}.
EmptyObject == << >>

\* The validation of fetchAndClassify, in the order of its tests: the error
\* it throws, or NoError.
FetchAndClassifyRejection(r) ==
    IF r.apiKey = ""
    THEN IF r.provider = "openai" THEN "INVALID_OPENAI_KEY" ELSE "INVALID_GEMINI_KEY"
    ELSE IF r.provider \notin {"openai", "gemini"} THEN "INVALID_PARAMS"
    ELSE IF LimitRejected(MaxResultsOf(r)) THEN "INVALID_EMAIL_LIMIT"
    ELSE NoError

\* The validation of getEmails.
GetEmailsRejection(r) ==
    IF LimitRejected(MaxResultsOf(r)) THEN "INVALID_EMAIL_LIMIT" ELSE NoError

Handlers == {"getEmails", "fetchAndClassify"}

LimitQueries == {"0", "1", "15", "50", "51", "-3", "100", "abc", "", "7.9", "12abc", " 20"}

RequestProviders == Providers \cup {"claude"}

Requests ==
    { [handler |-> h, hasLimit |-> TRUE, limit |-> l, apiKey |-> k, provider |-> p] :
        h \in Handlers, l \in LimitQueries, k \in ApiKeys, p \in RequestProviders }
    \cup
    { [handler |-> h, hasLimit |-> FALSE, limit |-> "", apiKey |-> k, provider |-> p] :
        h \in Handlers, k \in ApiKeys, p \in RequestProviders }

InitHandler ==
    /\ req \in Requests
    /\ hpc = "received"
    /\ fetchCalls = << >>
    /\ fetched = << >>
    /\ res = NoRes
    /\ SchedulerIdle
    /\ PlanIdle
    /\ CategoryIdle
    /\ DashboardIdle
    /\ MessageIdle
    /\ InterceptorIdle

\* The handler runs from its start to its first await (fetchEmails) or to
\* the error response.
Receive(handler, rejection) ==
    /\ hpc = "received"
    /\ req.handler = handler
    /\ IF rejection # NoError
       THEN /\ hpc' = "sent"
            /\ res' = SendError(rejection)
            /\ UNCHANGED fetchCalls
       ELSE /\ hpc' = "fetching"
            /\ fetchCalls' = Append(fetchCalls, MaxResultsOf(req))
            /\ UNCHANGED res
    /\ UNCHANGED << schedVars, planVars, categoryVars, dashboardVars, messageVars, interceptorVars, req, fetched >>

GetEmails == Receive("getEmails", GetEmailsRejection(req))

FetchAndClassify == Receive("fetchAndClassify", FetchAndClassifyRejection(req))

\* fetchEmails resolves with n messages, at most maxResults.
FetchResolved(n) ==
    /\ hpc = "fetching"
    /\ n <= fetchCalls[Len(fetchCalls)]
    /\ fetched' = MakeEmails(n)
    /\ IF req.handler = "getEmails"
       THEN /\ hpc' = "sent"
            /\ res' = SendSuccess([emails |-> MakeEmails(n), count |-> n],
                                  "Emails fetched successfully")
       ELSE IF n = 0
       THEN /\ hpc' = "sent"
            /\ res' = SendSuccess([classifiedEmails |-> << >>, stats |-> EmptyObject,
                                   provider |-> req.provider], "No emails found")
       ELSE /\ hpc' = "classifying"
            /\ UNCHANGED res
    /\ UNCHANGED << schedVars, planVars, categoryVars, dashboardVars, messageVars, interceptorVars, req, fetchCalls >>

\* fetchEmails rejects.
FetchRejected(e) ==
    /\ hpc = "fetching"
    /\ hpc' = "sent"
    /\ res' = SendError(e)
    /\ UNCHANGED << schedVars, planVars, categoryVars, dashboardVars, messageVars, interceptorVars, req, fetchCalls, fetched >>

\* classifyEmails resolves: one labeled message per fetched message, in
\* order, each with a category of EmailCategory.
ClassifyResolved(cats) ==
    /\ hpc = "classifying"
    /\ LET labeledEmails == [k \in 1..Len(fetched) |-> WithCategory(fetched[k], cats[k])]
           stats == getClassificationStats(labeledEmails)
       IN  res' = SendSuccess([classifiedEmails |-> labeledEmails, stats |-> stats,
                               count |-> Len(labeledEmails), provider |-> req.provider],
                              "Emails fetched and classified successfully")
    /\ hpc' = "sent"
    /\ UNCHANGED << schedVars, planVars, categoryVars, dashboardVars, messageVars, interceptorVars, req, fetchCalls, fetched >>

\* classifyEmails rejects: its outer catch raises CLASSIFICATION_FAILED.
ClassifyRejected ==
    /\ hpc = "classifying"
    /\ hpc' = "sent"
    /\ res' = SendError(OuterCatch("any"))
    /\ UNCHANGED << schedVars, planVars, categoryVars, dashboardVars, messageVars, interceptorVars, req, fetchCalls, fetched >>

FetchSettled ==
    \/ \E n \in 0..MaxFetched : FetchResolved(n)
    \/ \E e \in {"INVALID_AUTH_TOKEN", "EMAIL_FETCH_FAILED"} : FetchRejected(e)

ClassifySettled ==
    \/ \E cats \in [1..Len(fetched) -> EmailCategory] : ClassifyResolved(cats)
    \/ ClassifyRejected

NextHandler == GetEmails \/ FetchAndClassify \/ FetchSettled \/ ClassifySettled

SpecHandler == InitHandler /\ [][NextHandler]_vars

(***************************************************************************)
(* The dashboard page (frontend dashboard/page.tsx) with lib/storage.ts:   *)
(* the provider selector, the API key field and handleClassify.  A commit  *)
(* is one render of the component followed by its effects, which run in    *)
(* declaration order on the state of that render; the state updates they   *)
(* request are applied together by the next render.                        *)
(***************************************************************************)
\* localStorage.getItem of a key that is not stored.
Null == "<null>"

\* A JavaScript string or null taken as a condition.
Truthy(v) == v # Null /\ v # ""

\* useState(false), useState('openai'), useState('')
InitialState == [mounted |-> FALSE, provider |-> "openai", apiKey |-> ""]

NoDialog == [isOpen |-> FALSE, title |-> "", message |-> "", type |-> "info"]

\* setDialog({ isOpen: true, title, message, type: 'error' })
ErrorDialog(title, message) ==
    [isOpen |-> TRUE, title |-> title, message |-> message, type |-> "error"]

\* storage.getProvider
GetProvider(ls) == IF Truthy(ls.aiProvider) THEN ls.aiProvider ELSE "gemini"

\* provider === 'openai' ? storage.getOpenAIKey() : storage.getGeminiKey()
GetKey(ls, p) == IF p = "openai" THEN ls.openaiApiKey ELSE ls.geminiApiKey

\* provider === 'openai' ? storage.setOpenAIKey(key) : storage.setGeminiKey(key)
SetKey(ls, p, key) ==
    IF p = "openai" THEN [ls EXCEPT !.openaiApiKey = key]
    ELSE [ls EXCEPT !.geminiApiKey = key]

\* The effects.  r is the state of the render they belong to; env holds the
\* storage (ls) and the state with the updates requested so far (q).
\* useEffect(() => { setMounted(true) }, [])
MountEffect(r, env) == [env EXCEPT !.q.mounted = TRUE]

\* The load effect, dependencies [mounted, router].
LoadEffect(r, env) ==
    IF ~r.mounted THEN env
    ELSE LET savedProvider == GetProvider(env.ls)
             savedApiKey == GetKey(env.ls, savedProvider)
         IN  [env EXCEPT !.q.provider = savedProvider,
                         !.q.apiKey = IF Truthy(savedApiKey) THEN savedApiKey ELSE @]

\* The save-key effect, dependencies [apiKey, provider, mounted].
SaveKeyEffect(r, env) ==
    IF ~r.mounted THEN env
    ELSE IF Truthy(r.apiKey) THEN [env EXCEPT !.ls = SetKey(@, r.provider, r.apiKey)]
    ELSE env

\* The provider effect, dependencies [provider, mounted].
ProviderEffect(r, env) ==
    IF ~r.mounted THEN env
    ELSE LET ls1 == [env.ls EXCEPT !.aiProvider = r.provider]
             savedApiKey == GetKey(ls1, r.provider)
         IN  [ls |-> ls1,
              q |-> [env.q EXCEPT !.apiKey = IF Truthy(savedApiKey) THEN savedApiKey ELSE ""]]

\* The title and message handleClassify shows for a backend error message.
ErrorDialogFor(errorMessage) ==
    IF Includes(errorMessage, "OpenAI") /\ Includes(errorMessage, "API key")
    THEN ErrorDialog("Invalid OpenAI API Key", "The OpenAI API key you provided is invalid or expired. Please check your key and try again.")
    ELSE IF Includes(errorMessage, "Gemini") /\ Includes(errorMessage, "API key")
    THEN ErrorDialog("Invalid Gemini API Key", "The Gemini API key you provided is invalid or expired. Please check your key and try again.")
    ELSE IF Includes(errorMessage, "Gemini API key with OpenAI")
    THEN ErrorDialog("Wrong API Key Type", "You're using a Gemini API key with OpenAI. Please switch to OpenAI provider or use a valid OpenAI API key.")
    ELSE IF Includes(errorMessage, "OpenAI API key with Gemini")
    THEN ErrorDialog("Wrong API Key Type", "You're using an OpenAI API key with Gemini. Please switch to Gemini provider or use a valid Gemini API key (starts with 'AIzaSy').")
    ELSE IF Includes(errorMessage, "rate limit")
    THEN ErrorDialog("Rate Limit Exceeded", "Too many requests. Please wait a moment and try again.")
    ELSE IF Includes(errorMessage, "quota")
    THEN ErrorDialog("API Quota Exceeded", "Your API quota has been exceeded. Please check your account limits.")
    ELSE ErrorDialog("Classification Failed", errorMessage)

\* The keys a user enters.
UserKeys == ApiKeys \ {""}

\* What localStorage holds when the page is loaded.
Storages ==
    [aiProvider : Providers \cup {Null},
     openaiApiKey : UserKeys \cup {Null},
     geminiApiKey : UserKeys \cup {Null}]

\* The keys of a storage, each with the provider it is stored for.
StoredKeys(ls) ==
    { << p, GetKey(ls, p) >> : p \in {q \in Providers : GetKey(ls, q) # Null} }

InitDashboard ==
    /\ localStorage \in Storages
    /\ loaded = localStorage
    /\ state = InitialState
    /\ queued = InitialState
    /\ committed = FALSE
    /\ touched = FALSE
    /\ entered = StoredKeys(localStorage)
    /\ dialog = NoDialog
    /\ isPending = FALSE
    /\ failure = NoError
    /\ SchedulerIdle
    /\ PlanIdle
    /\ CategoryIdle
    /\ HandlerIdle
    /\ MessageIdle
    /\ InterceptorIdle

\* No render is due: the page has rendered and no state update is queued.
Settled == committed /\ queued = state

\* One render and its effects: every effect on the first render, afterwards
\* the effects with a dependency that changed.
Commit ==
    /\ ~Settled
    /\ LET r == queued
           changed(f) == ~committed \/ r[f] # state[f]
           env0 == [ls |-> localStorage, q |-> r]
           env1 == IF ~committed THEN MountEffect(r, env0) ELSE env0
           env2 == IF changed("mounted") THEN LoadEffect(r, env1) ELSE env1
           env3 == IF changed("apiKey") \/ changed("provider") \/ changed("mounted")
                   THEN SaveKeyEffect(r, env2) ELSE env2
           env4 == IF changed("provider") \/ changed("mounted")
                   THEN ProviderEffect(r, env3) ELSE env3
       IN  /\ state' = r
           /\ queued' = env4.q
           /\ localStorage' = env4.ls
    /\ committed' = TRUE
    /\ UNCHANGED << schedVars, planVars, categoryVars, handlerVars, messageVars, interceptorVars, loaded, touched,
                    entered, dialog, isPending, failure >>

\* The selector's onChange: setProvider(e.target.value).
SelectProvider(p) ==
    /\ Settled /\ state.mounted /\ ~isPending
    /\ p # state.provider
    /\ queued' = [state EXCEPT !.provider = p]
    /\ touched' = TRUE
    /\ UNCHANGED << schedVars, planVars, categoryVars, handlerVars, messageVars, interceptorVars, state, committed,
                    localStorage, loaded, entered, dialog, isPending, failure >>

\* The key field's onChange: setApiKey(e.target.value).  The field is
\* rendered while apiKey is empty.
EnterKey(key) ==
    /\ Settled /\ state.mounted /\ ~isPending
    /\ state.apiKey = ""
    /\ queued' = [state EXCEPT !.apiKey = key]
    /\ entered' = entered \cup {<< state.provider, key >>}
    /\ touched' = TRUE
    /\ UNCHANGED << schedVars, planVars, categoryVars, handlerVars, messageVars, interceptorVars, state, committed,
                    localStorage, loaded, dialog, isPending, failure >>

\* The Remove button, rendered while apiKey is not empty.
RemoveKey ==
    /\ Settled /\ state.mounted
    /\ state.apiKey # ""
    /\ localStorage' = SetKey(localStorage, state.provider, Null)
    /\ queued' = [state EXCEPT !.apiKey = ""]
    /\ touched' = TRUE
    /\ UNCHANGED << schedVars, planVars, categoryVars, handlerVars, messageVars, interceptorVars, state, committed,
                    loaded, entered, dialog, isPending, failure >>

\* handleClassify up to its await.
Classify ==
    /\ Settled /\ state.mounted /\ ~isPending
    /\ IF ~Truthy(state.apiKey)
       THEN /\ dialog' = ErrorDialog("API Key Required",
                                     IF state.provider = "openai"
                                     THEN "Please enter your OpenAI API key first."
                                     ELSE "Please enter your Gemini API key first.")
            /\ UNCHANGED isPending
       ELSE /\ isPending' = TRUE
            /\ UNCHANGED dialog
    /\ failure' = NoError
    /\ UNCHANGED << schedVars, planVars, categoryVars, handlerVars, messageVars, interceptorVars, state, queued,
                    committed, localStorage, loaded, touched, entered >>

\* The request fails with a response carrying the message of a backend error.
ClassifyFailed(e) ==
    /\ isPending
    /\ isPending' = FALSE
    /\ dialog' = ErrorDialogFor(ERRORS[e].message)
    /\ failure' = e
    /\ UNCHANGED << schedVars, planVars, categoryVars, handlerVars, messageVars, interceptorVars, state, queued,
                    committed, localStorage, loaded, touched, entered >>

\* The request succeeds.
ClassifySucceeded ==
    /\ isPending
    /\ isPending' = FALSE
    /\ dialog' = [isOpen |-> TRUE, title |-> "Classification Complete",
                  message |-> "Successfully classified", type |-> "success"]
    /\ UNCHANGED failure
    /\ UNCHANGED << schedVars, planVars, categoryVars, handlerVars, messageVars, interceptorVars, state, queued,
                    committed, localStorage, loaded, touched, entered >>

\* The page is loaded again.
Reload ==
    /\ Settled /\ ~isPending
    /\ state' = InitialState
    /\ queued' = InitialState
    /\ committed' = FALSE
    /\ loaded' = localStorage
    /\ touched' = FALSE
    /\ dialog' = NoDialog
    /\ failure' = NoError
    /\ UNCHANGED << schedVars, planVars, categoryVars, handlerVars, messageVars, interceptorVars, localStorage, entered,
                    isPending >>

NextDashboard ==
    \/ Commit
    \/ \E p \in Providers : SelectProvider(p)
    \/ \E key \in UserKeys : EnterKey(key)
    \/ RemoveKey
    \/ Classify
    \/ \E e \in ErrorNames : ClassifyFailed(e)
    \/ ClassifySucceeded
    \/ Reload

SpecDashboard == InitDashboard /\ [][NextDashboard]_vars

(***************************************************************************)
(* One message through classifyFn inside the batch loop: the classifier    *)
(* input built from the message, the provider's answer, the labeled        *)
(* message the callback of batch.map resolves with.                        *)
(***************************************************************************)
RECURSIVE Repeat(_, _)
Repeat(s, n) == IF n = 0 THEN "" ELSE s \o Repeat(s, n - 1)

\* Bodies around the limit of the classifier input: 1500 and 1501
\* characters, and one well above.
Body1500 == Repeat("Lorem ipsum dolor sit amet, consectetur adipiscing", 30)

Bodies ==
    {"", "Your invoice is attached.", Body1500, Body1500 \o "!",
     Body1500 \o " Unsubscribe: https://example.com/u/7"}

Messages ==
    [id : {"18c2f0a1b3"}, threadId : {"18c2f0a1b3", "18c2e77d90"},
     from : {"Billing <billing@example.com>"}, to : {"me@example.com"},
     subject : {"", "Invoice 2024-11"}, snippet : {"Your invoice is attached."},
     body : Bodies, date : {"Mon, 4 Nov 2024 09:12:33 +0000"},
     labels : {<< >>, << "INBOX", "UNREAD" >>}]

\* chain.invoke({ from, subject, snippet, body: truncatedBody }) and the
\* prompt of classifySingleEmailGemini
ClassifierInput(email) ==
    [from |-> email.from, subject |-> email.subject, snippet |-> email.snippet,
     body |-> Substring(email.body, 0, BodyLimit)]

InitMessage ==
    /\ msg \in Messages
    /\ via \in [provider : Providers, apiKey : ApiKeys \ {""}]
    /\ mpc = "ready"
    /\ prompt = NoPrompt
    /\ labeled = NoLabeled
    /\ answer = NoReply
    /\ outcome = Return(NoValue)
    /\ SchedulerIdle
    /\ PlanIdle
    /\ CategoryIdle
    /\ HandlerIdle
    /\ DashboardIdle
    /\ InterceptorIdle

\* classifyFn(email, apiKey) up to its await.
Ask ==
    /\ mpc = "ready"
    /\ mpc' = "asked"
    /\ prompt' = ClassifierInput(msg)
    /\ UNCHANGED << schedVars, planVars, categoryVars, handlerVars, dashboardVars,
                    interceptorVars,
                    msg, via, labeled, answer, outcome >>

\* The provider answers with r; the classifier and the try/catch of the
\* batch.map callback run.
Replied(r) ==
    LET out == classifyFn(via.provider, msg, via.apiKey, r)
    IN  /\ mpc = "asked"
        /\ answer' = r
        /\ outcome' = out
        /\ IF out.tag = "return"
           THEN /\ mpc' = "labeled"
                /\ labeled' = out.value
           ELSE IF out.error \in RethrownErrors
           THEN /\ mpc' = "rethrown"
                /\ UNCHANGED labeled
           ELSE /\ mpc' = "labeled"
                /\ labeled' = WithCategory(msg, "General")
        /\ UNCHANGED << schedVars, planVars, categoryVars, handlerVars, dashboardVars,
                    interceptorVars,
                        msg, via, prompt >>

NextMessage ==
    Ask \/ \E r \in {TextReply(t) : t \in ResponseWords} \cup ErrorReplies \cup ProviderFailures :
               Replied(r)

SpecMessage == InitMessage /\ [][NextMessage]_vars

(***************************************************************************)
(* frontend lib/storage.ts: one request through the axios instance api,    *)
(* with its request interceptor and its response interceptor.              *)
(***************************************************************************)
\* localStorage.setItem(key, value)
setItem(store, key, value) == [store EXCEPT ![key] = value]

\* localStorage.removeItem(key)
removeItem(store, key) == [store EXCEPT ![key] = Null]

\* The request interceptor: the stored access token, if any, becomes the
\* Authorization header.
RequestInterceptor(cfg, store) ==
    IF Truthy(store.accessToken)
    THEN [cfg EXCEPT !.Authorization = "Bearer " \o store.accessToken]
    ELSE cfg

\* An instance that builds a fresh config for every request, losing _retry.
DispatchFreshConfig(cfg, store) ==
    [RequestInterceptor(cfg, store) EXCEPT !.retry = FALSE]

\* api(config): the config, _retry included, passes the request interceptor
\* and goes to the server.
Dispatch(cfg, store) == RequestInterceptor(cfg, store)

\* A cleanup that removes every key, as storage.clearAll does.
RemoveEverything(store) == [key \in DOMAIN store |-> Null]

\* The three removeItem calls of the refresh catch block.
RemoveSession(store) ==
    removeItem(removeItem(removeItem(store, "accessToken"), "refreshToken"), "user")

\* useIsAuthenticated: !!storage.getAccessToken() && !!storage.getUser()
useIsAuthenticated == Truthy(storage.accessToken) /\ Truthy(storage.user)

Resolved(httpStatus) == [kind |-> "resolved", from |-> "request", httpStatus |-> httpStatus]

\* Promise.reject(error) and Promise.reject(refreshError)
Rejected(from, httpStatus) == [kind |-> "rejected", from |-> from, httpStatus |-> httpStatus]

\* The statuses the server answers the request with; NoStatus is a network
\* error (error.response is undefined).
ResponseStatuses == {200, 401, 403, 500, NoStatus}

\* The statuses the refresh call fails with.
RefreshFailureStatuses == {401, 500, NoStatus}

\* response.data.data.accessToken of a successful refresh call.
IssuedTokens == {"ya29.b1-Kf", "ya29.c2-Qx"}

\* The storage of a browser without a session, with a session, and with a
\* session for which no refresh token was issued; the keys, the provider
\* preference and the classified emails present or absent.
BrowserStorages ==
    {store \in [accessToken : {Null, "ya29.a0-Zr"},
                refreshToken : {Null, "1//0gR-7d"},
                user : {Null, "{\"email\":\"me@example.com\",\"name\":\"Me\"}"},
                openaiApiKey : {Null, "sk-proj-4f2a"},
                geminiApiKey : {Null, "AIzaSyD-9tSr"},
                aiProvider : {Null, "openai", "gemini"},
                classifiedEmails : {Null, "[{\"id\":\"18c2f0a1b3\",\"category\":\"Spam\"}]"}] :
        /\ store.accessToken = Null <=> store.user = Null
        /\ store.refreshToken # Null => store.accessToken # Null}

InitInterceptor ==
    /\ storage \in BrowserStorages
    /\ config = NoConfig
    /\ ipc = "ready"
    /\ sends = 0
    /\ refreshes = 0
    /\ issued = ""
    /\ settlement = NoSettlement
    /\ href = "/dashboard"
    /\ SchedulerIdle
    /\ PlanIdle
    /\ CategoryIdle
    /\ HandlerIdle
    /\ DashboardIdle
    /\ MessageIdle

\* api.get(...) / api.post(...): the request goes out.
Send ==
    /\ ipc = "ready"
    /\ config' = Dispatch(config, storage)
    /\ ipc' = "pending"
    /\ sends' = sends + 1
    /\ UNCHANGED << schedVars, planVars, categoryVars, handlerVars, dashboardVars,
                    messageVars, storage, refreshes, issued, settlement, href >>

\* The server answers the request; the response interceptor runs up to its
\* await or to its end.
Respond(httpStatus) ==
    /\ ipc = "pending"
    /\ IF httpStatus = 200
       THEN /\ ipc' = "resolved"
            /\ settlement' = Resolved(httpStatus)
            /\ UNCHANGED << config, refreshes >>
       ELSE IF httpStatus = 401 /\ ~config.retry
       THEN /\ config' = [config EXCEPT !.retry = TRUE]
            /\ IF Truthy(storage.refreshToken)
               THEN /\ refreshes < MaxRefreshes
                    /\ ipc' = "refreshing"
                    /\ refreshes' = refreshes + 1
                    /\ UNCHANGED settlement
               ELSE /\ ipc' = "rejected"
                    /\ settlement' = Rejected("request", httpStatus)
                    /\ UNCHANGED refreshes
       ELSE /\ ipc' = "rejected"
            /\ settlement' = Rejected("request", httpStatus)
            /\ UNCHANGED << config, refreshes >>
    /\ UNCHANGED << schedVars, planVars, categoryVars, handlerVars, dashboardVars,
                    messageVars, storage, sends, issued, href >>

\* The refresh call succeeds with a new access token: it is stored and the
\* original request is sent again.
RefreshSucceeded(accessToken) ==
    LET stored == setItem(storage, "accessToken", accessToken)
        originalRequest == [config EXCEPT !.Authorization = "Bearer " \o accessToken]
    IN  /\ ipc = "refreshing"
        /\ storage' = stored
        /\ issued' = accessToken
        /\ config' = Dispatch(originalRequest, stored)
        /\ ipc' = "pending"
        /\ sends' = sends + 1
        /\ UNCHANGED << schedVars, planVars, categoryVars, handlerVars, dashboardVars,
                        messageVars, refreshes, settlement, href >>

\* The refresh call fails: the session is removed, the browser is sent to
\* the landing page and the caller gets the refresh error.
RefreshFailed(httpStatus) ==
    /\ ipc = "refreshing"
    /\ storage' = RemoveSession(storage)
    /\ href' = "/"
    /\ ipc' = "rejected"
    /\ settlement' = Rejected("refresh", httpStatus)
    /\ UNCHANGED << schedVars, planVars, categoryVars, handlerVars, dashboardVars,
                    messageVars, config, sends, refreshes, issued >>

Responded == \E httpStatus \in ResponseStatuses : Respond(httpStatus)

Refreshed ==
    \/ \E accessToken \in IssuedTokens : RefreshSucceeded(accessToken)
    \/ \E httpStatus \in RefreshFailureStatuses : RefreshFailed(httpStatus)

NextInterceptor == Send \/ Responded \/ Refreshed

SpecInterceptor == InitInterceptor /\ [][NextInterceptor]_vars

\* Every request and every refresh call is eventually answered or fails.
InterceptorFairness == WF_vars(Responded) /\ WF_vars(Refreshed)

SpecInterceptorLive == SpecInterceptor /\ InterceptorFairness


(***************************************************************************)
(* Properties.                                                             *)
(***************************************************************************)

\* The outcome of the per-message call of message k, once it is answered.
OutcomeOf(k) == classifyFn(provider, emails[k], apiKey, reply[k])

Answered(k) == reply[k].kind # "none"

\* C1: a classifyEmails invocation that returns, returns exactly one labeled
\* message per input message and the k-th output entry is the k-th input
\* message, whatever the order in which the calls of a batch completed.
C1_OutputMatchesInput ==
    pc = "returned" =>
        /\ Len(result) = N
        /\ \A k \in 1..N : result[k].id = emails[k].id

\* A returned invocation of more than one batch in which some call completed
\* before an earlier call of its batch.
C1_Witness ==
    /\ pc = "returned"
    /\ batches >= 2
    /\ reordered
    /\ Len(result) = N

(***************************************************************************)
(* Kinds of per-message failure.                                           *)
(***************************************************************************)
InvalidKeyErrors == {"INVALID_OPENAI_KEY", "INVALID_GEMINI_KEY"}
KeyTypeMismatchErrors == {"OPENAI_KEY_TYPE_MISMATCH", "GEMINI_KEY_TYPE_MISMATCH"}
CredentialErrors == InvalidKeyErrors \cup KeyTypeMismatchErrors
RateLimitErrors == {"OPENAI_RATE_LIMIT", "GEMINI_RATE_LIMIT"}
ProviderErrors == {"OPENAI_API_ERROR", "GEMINI_API_ERROR"}

\* The call of message k has failed with one of the given errors.
FailedWith(k, errs) ==
    Answered(k) /\ OutcomeOf(k).tag = "throw" /\ OutcomeOf(k).error \in errs

\* A failure that is neither a credential error, a rate limit nor an outage:
\* the provider's error carries no status and names no key problem.
NonFatalFailure(r) ==
    /\ r.kind = "error"
    /\ r.status = NoStatus
    /\ r.code # "invalid_api_key"
    /\ ~Includes(r.message, "API key")

\* C2: if a per-message call fails with an invalid-credential or a
\* credential-type-mismatch error, classifyEmails raises and returns no
\* labeled sequence.
C2_CredentialErrorAborts ==
    \A k \in 1..N :
        FailedWith(k, CredentialErrors) => pc = "raised" /\ result = << >>

\* C3: if a per-message call fails with a rate-limit error (429) or a
\* provider-outage error (status >= 500), classifyEmails raises instead of
\* labeling the message General and continuing.
C3_RateLimitOrOutageAborts ==
    \A k \in 1..N :
        FailedWith(k, RateLimitErrors \cup ProviderErrors) => pc = "raised"

\* C4: when classifyEmails aborts because of a fatal per-message error, the
\* error the caller receives is that error (its sub-kind is preserved), not
\* the generic classification failure.
C4_SubKindPreserved ==
    (pc = "raised" /\ abortedBy # 0) =>
        /\ ERRORS[thrown] = ERRORS[OutcomeOf(abortedBy).error]
        /\ thrown # "CLASSIFICATION_FAILED"

\* C5: a per-message call that fails with a non-fatal error yields General
\* for that message, every message answered with a text keeps the category
\* of its own answer, and a non-fatal failure never aborts the invocation.
C5_NonFatalFailureIsolated ==
    /\ abortedBy # 0 => ~NonFatalFailure(reply[abortedBy])
    /\ thrown # NoError => (apiKey = "" \/ abortedBy # 0)
    /\ pc = "returned" =>
         \A k \in 1..N :
            /\ NonFatalFailure(reply[k]) => result[k].category = "General"
            /\ reply[k].kind = "text" => result[k].category = CategoryOf(reply[k].text)

\* A returned invocation in which one call timed out, its message is General
\* and another message carries a category other than General.
C5_Witness ==
    /\ pc = "returned"
    /\ \E k \in 1..N : /\ reply[k] = TimedOut
                       /\ result[k].category = "General"
                       /\ CategoryOf(ReplyTextFor(emails[k])) # "General"
    /\ \E k \in 1..N : reply[k].kind = "text" /\ result[k].category # "General"

\* The plan the table assigns to a count n >= 1.
HalfRoundedUp(n) == CHOOSE c \in 0..n : 2 * c >= n /\ 2 * (c - 1) < n

TablePlan(n) ==
    CASE n \in 1..5 -> Plan(n, 0)
      [] n \in 6..10 -> Plan(n, 500)
      [] n \in 11..15 -> Plan(HalfRoundedUp(n), 800)
      [] n \in 16..25 -> Plan(10, 1000)
      [] n \in 26..40 -> Plan(10, 1200)
      [] n >= 41 -> Plan(8, 1500)

\* C6: the (batchSize, delayMs) plan of n messages is the one of the table:
\* 1..5 -> (n, 0); 6..10 -> (n, 500); 11..15 -> (ceil(n/2), 800);
\* 16..25 -> (10, 1000); 26..40 -> (10, 1200); 41 and more -> (8, 1500).
C6_PlanMatchesTable ==
    planOut # NoPlan => planOut = TablePlan(planN)

\* The plan of 41 messages, the first count of the last row, is computed.
C6_Witness ==
    planN = 41 /\ planOut = Plan(8, 1500)

C8_DelayBetweenBatchesOnly ==
    /\ batches = 0 => delays = 0
    /\ batches > 0 => delays = (IF pc = "delay" THEN batches ELSE batches - 1)
    /\ pc = "delay" => batches < Ceil(N, batchSize)
    /\ (pc = "returned" /\ N > 0) =>
          /\ batches = Ceil(N, batchSize)
          /\ delays = batches - 1

\* A returned invocation of two batches that delayed once.
C8_Witness ==
    pc = "returned" /\ batches = 2 /\ delays = 1

\* The batch (counted from 0) of message k.
BatchOf(k) == (k - 1) \div batchSize

InFlight(k) == calls[k] > 0 /\ ~Answered(k)

\* C9: batches are strictly sequential: while a call of some batch is
\* unresolved, no call of a later batch has been dispatched.
C9_BatchesSequential ==
    \A k \in 1..N : \A j \in 1..N :
        (InFlight(k) /\ calls[j] > 0) => BatchOf(j) <= BatchOf(k)

\* The second batch is in flight, partly answered.
C9_Witness ==
    /\ pc = "await"
    /\ batches = 2
    /\ \E k \in 1..N : InFlight(k)
    /\ \E k \in 1..N : BatchOf(k) = 1 /\ Answered(k)

\* C10: once a per-message call has failed with a credential error, no
\* further per-message call is issued.
C10_NoCallAfterCredentialError ==
    [][(\E k \in 1..N : FailedWith(k, CredentialErrors)) => calls' = calls]_vars

\* Two strings are equal up to the case of their letters.
SameLetter(a, b) ==
    \/ a = b
    \/ a \in DOMAIN UpperOf /\ UpperOf[a] = b
    \/ b \in DOMAIN UpperOf /\ UpperOf[b] = a

EqualIgnoreCase(s, t) ==
    /\ Len(s) = Len(t)
    /\ \A k \in 1..Len(s) : SameLetter(CharAt(s, k), CharAt(t, k))

\* C11: the category assigned to a model response is the one of the six
\* categories whose name equals the trimmed response (here: the word between
\* the white space) up to case, General when there is none, and always one
\* of the six.
C11_ResponseNormalised ==
    category # "none" =>
        /\ category \in EmailCategory
        /\ \A c \in EmailCategory : EqualIgnoreCase(c, response.word) => category = c
        /\ (\A c \in EmailCategory : ~EqualIgnoreCase(c, response.word)) => category = "General"

\* A mixed-case category name wrapped in white space has been normalised.
C11_Witness ==
    /\ response = [pre |-> " \t ", word |-> "sPaM", post |-> "\n"]
    /\ category = "Spam"


(***************************************************************************)
(* The responses of the email controller.                                  *)
(***************************************************************************)
\* fetchAndClassify has answered with success.
ClassifiedSuccessfully == hpc = "sent" /\ req.handler = "fetchAndClassify" /\ res.success

\* The number of messages of es labeled c.
Labeled(es, c) == Cardinality({k \in 1..Len(es) : es[k].category = c})

RECURSIVE SumOver(_, _)
SumOver(f, S) ==
    IF S = {} THEN 0
    ELSE LET c == CHOOSE x \in S : TRUE IN f[c] + SumOver(f, S \ {c})

\* C12: the histogram computed from a labeled sequence maps every category
\* to the number of messages labeled with it, and its six counts sum to the
\* length of the sequence.
C12_StatsCountEveryCategory ==
    (ClassifiedSuccessfully /\ Len(fetched) > 0) =>
        LET data == res.data
        IN  /\ DOMAIN data.stats = EmailCategory
            /\ \A c \in EmailCategory : data.stats[c] = Labeled(data.classifiedEmails, c)
            /\ SumOver(data.stats, EmailCategory) = Len(data.classifiedEmails)

C12_Witness ==
    /\ ClassifiedSuccessfully
    /\ Len(fetched) = 3
    /\ res.data.stats["Spam"] = 2
    /\ res.data.stats["Important"] = 1
    /\ res.data.stats["General"] = 0

\* C13: every successful fetch-and-classify outcome carries a histogram with
\* a key for each of the six categories, the outcome for zero fetched
\* messages included.
C13_StatsHaveSixKeys ==
    ClassifiedSuccessfully => DOMAIN res.data.stats = EmailCategory

\* The request passes every validation other than that of the limit.
OtherwiseValid ==
    req.handler = "fetchAndClassify" => (req.apiKey # "" /\ req.provider \in Providers)

\* The limit the request supplies is a number outside 1..50, or no number.
LimitOutOfRange ==
    /\ req.hasLimit
    /\ LET parsed == ParseInt(req.limit)
       IN  parsed.nan \/ parsed.value < MinLimit \/ parsed.value > MaxLimit

\* C19: a request whose limit is outside 1..50 is answered with
\* INVALID_EMAIL_LIMIT before any Gmail fetch, and 15 is the limit of a
\* fetch only when the request supplies no limit (or supplies 15).
C19_LimitValidated ==
    /\ (hpc # "received" /\ OtherwiseValid /\ LimitOutOfRange) =>
           /\ fetchCalls = << >>
           /\ hpc = "sent"
           /\ res.message = ERRORS["INVALID_EMAIL_LIMIT"].message
    /\ \A k \in 1..Len(fetchCalls) :
           (fetchCalls[k] = DefaultLimit /\ req.hasLimit) =>
               ParseInt(req.limit) = Number(DefaultLimit)


\* C14: classifyEmails invoked with a non-empty credential and no message
\* returns the empty sequence, dispatching no call and starting no delay.
C14_EmptyInputReturnsEmpty ==
    (N = 0 /\ apiKey # "" /\ pc # "idle") =>
        /\ pc = "returned"
        /\ result = << >>
        /\ thrown = NoError
        /\ batches = 0
        /\ delays = 0

C14_Witness ==
    /\ N = 0
    /\ apiKey = "AIzaSyD-9tSr"
    /\ provider = "gemini"
    /\ pc = "returned"
    /\ result = << >>


\* The concatenation of the sequences of a sequence.
RECURSIVE Flatten(_)
Flatten(ss) == IF Len(ss) = 0 THEN << >> ELSE Head(ss) \o Flatten(Tail(ss))

\* C15: the n messages are cut into ceil(n / batchSize) contiguous batches
\* in input order; every batch but the last holds batchSize messages and
\* the last holds between 1 and batchSize.
C15_ContiguousBatches ==
    planOut # NoPlan =>
        LET size == planOut.batchSize
            count == Len(planBatches)
        IN  /\ count = Ceil(planN, size)
            /\ Flatten(planBatches) = MakeEmails(planN)
            /\ \A b \in 1..(count - 1) : Len(planBatches[b]) = size
            /\ Len(planBatches[count]) \in 1..size

C15_Witness ==
    /\ planN = 45
    /\ Len(planBatches) = 6
    /\ Len(planBatches[5]) = 8
    /\ Len(planBatches[6]) = 5
    /\ planBatches[6][1].id = 41


(***************************************************************************)
(* The dashboard.                                                          *)
(***************************************************************************)
\* C16: the key stored for a provider is only ever a key that was entered
\* (or was already stored) while that provider was selected; in particular
\* switching the provider changes no stored key.
C16_KeysPerProvider ==
    \A p \in Providers :
        GetKey(localStorage, p) # Null => << p, GetKey(localStorage, p) >> \in entered

\* The page was loaded with a stored provider and a stored key for both
\* providers, has rendered to rest, and the user has not acted.
LoadedAtRest ==
    /\ Settled
    /\ ~touched
    /\ loaded.aiProvider # Null
    /\ loaded.openaiApiKey # Null
    /\ loaded.geminiApiKey # Null

\* C17: loading the page with a stored provider and stored keys for both
\* providers leaves the three stored values unchanged and shows the stored
\* provider with its stored key.
C17_LoadKeepsStorage ==
    LoadedAtRest =>
        /\ localStorage = loaded
        /\ state.provider = loaded.aiProvider
        /\ state.apiKey = GetKey(loaded, loaded.aiProvider)

\* C18: for the backend message of a key-type mismatch, handleClassify shows
\* the 'Wrong API Key Type' dialog.
C18_MismatchGuidance ==
    failure \in KeyTypeMismatchErrors =>
        /\ dialog.isOpen
        /\ dialog.title = "Wrong API Key Type"


C22_JoinAll ==
    pc \in {"delay", "returned", "raised"} => \A k \in 1..N : ~InFlight(k)

\* C23: while the scheduler is suspended in the inter-batch delay no call is
\* in flight, and the only step that dispatches calls from there is the
\* one the elapsed delay takes.
C23_NothingDuringDelay ==
    [][pc = "delay" =>
          /\ \A k \in 1..N : ~InFlight(k)
          /\ pending = {}
          /\ calls' # calls => (pc' = "await" /\ i' = i + batchSize /\ delays' = delays)]_vars

C23_Witness ==
    /\ pc = "delay"
    /\ delays = 1
    /\ Len(classifiedEmails) = 6
    /\ \A k \in 1..N : calls[k] = IF k <= 6 THEN 1 ELSE 0

\* C26: a message is dispatched to the per-message classifier at most once,
\* and exactly once when the invocation returns.
C26_NoRetry ==
    /\ \A k \in 1..N : calls[k] <= 1
    /\ pc = "returned" => \A k \in 1..N : calls[k] = 1

C26_Witness ==
    /\ pc = "returned"
    /\ N = 11
    /\ \A k \in 1..N : calls[k] = 1
    /\ \E k \in 1..N : reply[k].kind = "error"

\* The plan of every count up to the limit of the email controller has a
\* batch size of at most 10.
PlanWithinTen == \A n \in 1..MaxLimit : BatchPlan(n).batchSize <= 10

\* C27: the calls in flight never outnumber batchSize, and batchSize is at
\* most 10 for every count up to 50.
C27_InFlightBounded ==
    /\ Cardinality({k \in 1..N : InFlight(k)}) <= batchSize
    /\ PlanWithinTen

C27_Witness ==
    /\ N = 11
    /\ batchSize = 6
    /\ Cardinality({k \in 1..N : InFlight(k)}) = 6

\* C29: with an empty credential classifyEmails raises
\* CLASSIFICATION_FAILED and dispatches nothing, whatever the messages,
\* the empty sequence included.
C29_EmptyCredentialRaises ==
    (apiKey = "" /\ pc # "idle") =>
        /\ pc = "raised"
        /\ thrown = "CLASSIFICATION_FAILED"
        /\ batches = 0
        /\ \A k \in 1..N : calls[k] = 0

C29_Witness ==
    /\ apiKey = ""
    /\ N = 0
    /\ pc = "raised"
    /\ thrown = "CLASSIFICATION_FAILED"
    /\ result = << >>


\* C28: an invocation on at least one message eventually returns or raises,
\* it never dispatches more than ceil(n / batchSize) batches, and every
\* change of the loop index is an increase by batchSize >= 1.
C28_Terminates ==
    /\ (N >= 1 /\ pc = "idle") ~> (pc \in {"returned", "raised"})
    /\ [](N >= 1 => batches <= TotalBatches(N))
    /\ [][i' # i => (batchSize >= 1 /\ i' = i + batchSize)]_vars

C28_Witness ==
    /\ pc = "returned"
    /\ N = 11
    /\ i = 12
    /\ batches = TotalBatches(N)
    /\ Len(result) = N

(***************************************************************************)
(* The kinds of provider failure, read off the provider's error alone.     *)
(***************************************************************************)
\* The failure is recognised as a credential error by the backend prov.
LooksLikeKeyError(r, prov) ==
    \/ r.status = 401
    \/ r.code = "invalid_api_key"
    \/ (prov = "gemini" /\ Includes(r.message, "API key"))

\* A 4xx status other than 401 and 429, not recognised as a credential error.
OtherClientError(r, prov) ==
    /\ r.kind = "error"
    /\ r.status >= 400 /\ r.status <= 499
    /\ r.status \notin {401, 429}
    /\ ~LooksLikeKeyError(r, prov)

\* The credential is one of the other provider.
KeyOfOtherProvider(key, prov) ==
    IF prov = "openai" THEN StartsWith(key, "AIzaSy") ELSE ~StartsWith(key, "AIzaSy")

\* C24: a provider error with a 4xx status other than 401 and 429 that is not
\* recognised as a credential error leaves the message labeled General and
\* is not re-thrown to the invocation; whatever is re-thrown stems from a
\* credential error, a rate limit or a 5xx status.
C24_ClientErrorIsGeneral ==
    /\ (mpc \in {"labeled", "rethrown"} /\ OtherClientError(answer, via.provider)) =>
           /\ mpc = "labeled"
           /\ labeled = [f \in DOMAIN msg \cup {"category"} |->
                            IF f = "category" THEN "General" ELSE msg[f]]
    /\ mpc = "rethrown" =>
           /\ answer.kind = "error"
           /\ \/ LooksLikeKeyError(answer, via.provider)
              \/ answer.status = 429
              \/ answer.status >= 500

\* The Gemini backend has labeled a message General whose call failed with
\* status 403.
C24_Witness ==
    /\ mpc = "labeled"
    /\ via.provider = "gemini"
    /\ answer.kind = "error"
    /\ answer.status = 403
    /\ OtherClientError(answer, via.provider)
    /\ labeled.category = "General"
    /\ outcome.tag = "return"

\* C25: the per-message classifier maps a provider failure to its outcome in
\* this order: a credential error (status 401, code invalid_api_key, for
\* Gemini also a message containing 'API key') throws the key-type mismatch
\* if the credential is one of the other provider and the invalid-key error
\* otherwise; else status 429 throws the rate limit; else a status >= 500
\* throws the provider error; every other failure returns the message
\* labeled General.
C25_FailurePrecedence ==
    (mpc \in {"labeled", "rethrown"} /\ answer.kind = "error") =>
        LET openai == via.provider = "openai"
            keyError == LooksLikeKeyError(answer, via.provider)
            otherKey == KeyOfOtherProvider(via.apiKey, via.provider)
        IN  /\ (keyError /\ otherKey) =>
                   (outcome.tag = "throw" /\ outcome.error =
                       IF openai THEN "OPENAI_KEY_TYPE_MISMATCH" ELSE "GEMINI_KEY_TYPE_MISMATCH")
            /\ (keyError /\ ~otherKey) =>
                   (outcome.tag = "throw" /\ outcome.error =
                       IF openai THEN "INVALID_OPENAI_KEY" ELSE "INVALID_GEMINI_KEY")
            /\ (~keyError /\ answer.status = 429) =>
                   (outcome.tag = "throw" /\ outcome.error =
                       IF openai THEN "OPENAI_RATE_LIMIT" ELSE "GEMINI_RATE_LIMIT")
            /\ (~keyError /\ answer.status # 429 /\ answer.status >= 500) =>
                   (outcome.tag = "throw" /\ outcome.error =
                       IF openai THEN "OPENAI_API_ERROR" ELSE "GEMINI_API_ERROR")
            /\ (~keyError /\ answer.status # 429 /\ answer.status < 500) =>
                   (outcome.tag = "return" /\ outcome.value.category = "General"
                    /\ outcome.value.id = msg.id)

\* The OpenAI backend, called with an OpenAI key, got status 429 together
\* with the code invalid_api_key: the key error wins over the rate limit.
C25_Witness ==
    /\ mpc = "labeled"
    /\ via.provider = "openai"
    /\ ~StartsWith(via.apiKey, "AIzaSy")
    /\ answer.status = 429
    /\ answer.code = "invalid_api_key"
    /\ outcome.tag = "throw"
    /\ outcome.error = "INVALID_OPENAI_KEY"

\* C21: a 401 on a request while a refresh token is stored leads to one
\* refresh call, never to a direct rejection; once the request has gone out
\* a second time the new access token is stored and is the one the request
\* carries; a request goes out at most twice and causes at most one refresh
\* call, the second answer settles it whatever its status, and every request
\* that has gone out is eventually resolved or rejected.
C21_RefreshOnce ==
    /\ [](refreshes <= 1 /\ sends <= 2)
    /\ [](ipc = "refreshing" => (refreshes = 1 /\ sends = 1 /\ config.retry))
    /\ [](sends = 2 =>
             /\ refreshes = 1
             /\ storage.accessToken = issued
             /\ config.Authorization = "Bearer " \o issued)
    /\ []((ipc = "rejected" /\ sends = 1 /\ settlement.from = "request"
                /\ settlement.httpStatus = 401) => ~Truthy(storage.refreshToken))
    /\ [][(ipc = "pending" /\ sends = 2 /\ ipc' # ipc) =>
              (ipc' \in {"resolved", "rejected"} /\ settlement'.from = "request")]_vars
    /\ (ipc = "pending") ~> (ipc \in {"resolved", "rejected"})

\* The request was answered 401, the token was refreshed, the request went
\* out again with the new token, was answered 401 again and is rejected.
C21_Witness ==
    /\ ipc = "rejected"
    /\ sends = 2
    /\ refreshes = 1
    /\ settlement = [kind |-> "rejected", from |-> "request", httpStatus |-> 401]
    /\ storage.accessToken = issued
    /\ issued = "ya29.b1-Kf"
    /\ config.Authorization = "Bearer ya29.b1-Kf"

\* C30: a failed refresh call removes the access token, the refresh token
\* and the user from storage, leaves every other key as it was, and rejects
\* the request (the user is no longer authenticated); a 401 without a stored
\* refresh token is rejected and leaves the whole storage as it was.
C30_RefreshFailureFrame ==
    [][/\ (ipc = "refreshing" /\ ipc' = "rejected") =>
            /\ \A key \in {"accessToken", "refreshToken", "user"} : storage'[key] = Null
            /\ \A key \in {"openaiApiKey", "geminiApiKey", "aiProvider", "classifiedEmails"} :
                   storage'[key] = storage[key]
            /\ settlement'.kind = "rejected"
            /\ ~useIsAuthenticated'
       /\ (ipc = "pending" /\ ipc' = "rejected" /\ settlement'.httpStatus = 401
              /\ ~Truthy(storage.refreshToken)) =>
            storage' = storage]_vars

\* A request sent with a stored access token was rejected by a failed
\* refresh call: the session is gone, the keys, the provider preference and
\* the classified emails are still stored.
C30_Witness ==
    /\ ipc = "rejected"
    /\ settlement.from = "refresh"
    /\ config.Authorization = "Bearer ya29.a0-Zr"
    /\ storage.accessToken = Null
    /\ storage.refreshToken = Null
    /\ storage.user = Null
    /\ storage.openaiApiKey = "sk-proj-4f2a"
    /\ storage.geminiApiKey = "AIzaSyD-9tSr"
    /\ storage.aiProvider = "gemini"
    /\ storage.classifiedEmails # Null
    /\ href = "/"

====
